---------------------------- MODULE Spec2Model ----------------------------
(***************************************************************************)
(* State-machine model of the semantic-layer-builder terminal application: *)
(* the interaction loop of main.rs (run_app), the update function of       *)
(* app.rs (App::handle_events and the handlers it dispatches to), the      *)
(* list/filter/selection/cache bookkeeping of AppState and the text        *)
(* fields of component.rs (InputArena).                                    *)
(*                                                                         *)
(* Strings are sequences of one-character strings, so that substring       *)
(* containment, push and pop are computed and not assumed.  usize is an    *)
(* unsigned integer of UsizeBits bits: a subtraction, addition or          *)
(* multiplication that leaves the range panics in a build with overflow    *)
(* checks (debug) and wraps in a build without them (release); the build   *)
(* is chosen in Init and never changes.                                    *)
(***************************************************************************)
EXTENDS Integers, Sequences, FiniteSets, TLC

VARIABLES
    pc,                 \* position of run_app: "draw", "read", "done", "failed", "panicked"
    overflow_checks,    \* TRUE: arithmetic overflow panics; FALSE: it wraps
    db,                 \* rows of tcp_proto_messages as the data source holds them now
    items,              \* AppState.items
    cached,             \* AppState.cached: NoneCached or <<rowid, data>>
    selected_index,     \* AppState.selected_index
    filtered_indexes,   \* AppState.filtered_indexes (0-based indices into items)
    state_selected,     \* AppState.state (TableState): its selection, NoneSelected or a usize
    scroll_position,    \* AppState.scroll_state: position
    scroll_content_length, \* AppState.scroll_state: content length given to ScrollbarState::new
    current_screen,     \* AppState.current_screen
    input_arena,        \* App.input_arena: InputId -> InputField
    exit,               \* App.exit
    error,              \* the error handle_events returned to run_app, "none" if none
    query_data_calls    \* number of Model::query_data calls made by the last handle_events

vars == << pc, overflow_checks, db, items, cached, selected_index, filtered_indexes,
           state_selected, scroll_position, scroll_content_length, current_screen,
           input_arena, exit, error, query_data_calls >>

---------------------------------------------------------------------------
(* Bounds of the model *)

\* width of usize in the model (the program's is 64)
UsizeBits == 4

\* largest total number of characters held by the three input fields (Spec)
MaxText == 1

\* largest total number of characters held by the three input fields (SpecScenario)
MaxScenarioText == 3

\* largest distance of the selection position from either end of the range of
\* usize: without overflow checks, Down on an empty view counts up for ever
MaxPosition == 2

---------------------------------------------------------------------------
(* Program constants *)

ITEM_HEIGHT == 4

NoneSelected == -1

NoneCached == << >>

UsizeModulus == 2 ^ UsizeBits

UsizeMax == UsizeModulus - 1

\* outcome of a usize operation that panics
Overflowed == -1

---------------------------------------------------------------------------
(* Strings *)

tcp_syn == << "t", "c", "p", "_", "s", "y", "n" >>

tcp_ack == << "t", "c", "p", "_", "a", "c", "k" >>

udp_ping == << "u", "d", "p", "_", "p", "i", "n", "g" >>

\* str::contains: f occurs in v as a contiguous run of characters
StrContains(v, f) ==
    \E i \in 0..(Len(v) - Len(f)) : SubSeq(v, i + 1, i + Len(f)) = f

\* String::push
StrPush(s, c) == Append(s, c)

\* String::pop: removes the last character, nothing on the empty string
StrPop(s) == IF Len(s) = 0 THEN s ELSE SubSeq(s, 1, Len(s) - 1)

---------------------------------------------------------------------------
(* usize arithmetic *)

usize_sub(a, b) ==
    IF a >= b THEN a - b
    ELSE IF overflow_checks THEN Overflowed ELSE a - b + UsizeModulus

usize_add(a, b) ==
    IF a + b <= UsizeMax THEN a + b
    ELSE IF overflow_checks THEN Overflowed ELSE (a + b) % UsizeModulus

usize_mul(a, b) ==
    IF a * b <= UsizeMax THEN a * b
    ELSE IF overflow_checks THEN Overflowed ELSE (a * b) % UsizeModulus

---------------------------------------------------------------------------
(* The data source (model.rs) *)

Row(id, nm, dt) == [rowid |-> id, name |-> nm, data |-> dt]

Table3 == << Row(1, tcp_syn, "d1"), Row(2, tcp_ack, "d2"), Row(3, udp_ping, "d3") >>

Table2 == << Row(1, tcp_syn, "d1"), Row(3, udp_ping, "d3") >>

Table0 == << >>

\* contents the table can have
DbStates == { Table3, Table2, Table0 }

\* contents the table can have when the application starts
InitialDbStates == { Table3, Table0 }

Header(row) == [rowid |-> row.rowid, name |-> row.name]

\* Model::query_protos: every row as a Header, in row order; fails when the query fails
query_protos(d, list_ok) ==
    IF list_ok
    THEN [ok |-> TRUE, val |-> [i \in 1..Len(d) |-> Header(d[i])]]
    ELSE [ok |-> FALSE, val |-> << >>]

\* Model::query_data: the data of the one row with this rowid; fails when there is none
query_data(d, proto_id, fetch_ok) ==
    IF fetch_ok /\ \E i \in 1..Len(d) : d[i].rowid = proto_id
    THEN [ok |-> TRUE,
          val |-> d[CHOOSE i \in 1..Len(d) : d[i].rowid = proto_id].data]
    ELSE [ok |-> FALSE, val |-> ""]

---------------------------------------------------------------------------
(* component.rs *)

InputIds == { "InputId::Filter", "InputId::Key", "InputId::Value" }

\* variant of MainInputTryInto: the two arms are exchanged, the conversion of
\* the filter focus fails
MainInputTryInto_swapped(input) ==
    IF input = "MainInput::Filter"
    THEN [ok |-> FALSE, id |-> "none"]
    ELSE [ok |-> TRUE, id |-> "InputId::Filter"]

\* variant of MainInputTryInto: the filter focus is given the Key field
MainInputTryInto_key(input) ==
    IF input = "MainInput::Filter"
    THEN [ok |-> TRUE, id |-> "InputId::Key"]
    ELSE [ok |-> FALSE, id |-> "none"]

\* TryFrom<&MainInput> for &InputId
MainInputTryInto(input) ==
    IF input = "MainInput::Filter"
    THEN [ok |-> TRUE, id |-> "InputId::Filter"]
    ELSE [ok |-> FALSE, id |-> "none"]

\* variant of EditingInputInto: the two foci are exchanged
EditingInputInto_swapped(input) ==
    IF input = "EditingInput::Key" THEN "InputId::Value" ELSE "InputId::Key"

\* From<&EditingInput> for &InputId
EditingInputInto(input) ==
    IF input = "EditingInput::Key" THEN "InputId::Key" ELSE "InputId::Value"

InputFieldNew == [content |-> << >>, is_active |-> FALSE]

InputArenaNew == [k \in InputIds |-> InputFieldNew]

\* InputArena::get_content
get_content(arena, k) ==
    IF k \in DOMAIN arena
    THEN [ok |-> TRUE, val |-> arena[k].content]
    ELSE [ok |-> FALSE, val |-> << >>]

\* variant of value_pop: the content is cleared (String::clear for String::pop)
value_pop_clear(arena, k) ==
    IF k \in DOMAIN arena
    THEN [ok |-> TRUE, val |-> [arena EXCEPT ![k].content = << >>]]
    ELSE [ok |-> FALSE, val |-> arena]

\* InputArena::value_pop
value_pop(arena, k) ==
    IF k \in DOMAIN arena
    THEN [ok |-> TRUE,
          val |-> [arena EXCEPT ![k].content = StrPop(arena[k].content)]]
    ELSE [ok |-> FALSE, val |-> arena]

\* variant of value_push: the character is put in front of the content
value_push_front(arena, k, value) ==
    IF k \in DOMAIN arena
    THEN [ok |-> TRUE,
          val |-> [arena EXCEPT ![k].content = << value >> \o arena[k].content]]
    ELSE [ok |-> FALSE, val |-> arena]

\* InputArena::value_push
value_push(arena, k, value) ==
    IF k \in DOMAIN arena
    THEN [ok |-> TRUE,
          val |-> [arena EXCEPT ![k].content = StrPush(arena[k].content, value)]]
    ELSE [ok |-> FALSE, val |-> arena]

---------------------------------------------------------------------------
(* app.rs: AppState.  An operation takes the application as a record `a`    *)
(* of the fields of App and AppState and returns [res, st]: res is "ok",    *)
(* "panic" or the error returned, st the application as the operation left  *)
(* it.                                                                      *)

Main(focus) == [tag |-> "Main", focus |-> focus]

Editing(focus) == [tag |-> "Editing", focus |-> focus]

Exiting == [tag |-> "Exiting", focus |-> "-"]

Ok(a) == [res |-> "ok", st |-> a]

Panic(a) == [res |-> "panic", st |-> a]

Err(e, a) == [res |-> e, st |-> a]

\* the application as the variables hold it
App ==
    [ items |-> items, cached |-> cached, selected_index |-> selected_index,
      filtered_indexes |-> filtered_indexes, state_selected |-> state_selected,
      scroll_position |-> scroll_position,
      scroll_content_length |-> scroll_content_length,
      current_screen |-> current_screen, input_arena |-> input_arena,
      exit |-> exit, query_data_calls |-> 0 ]

\* App::new and AppState::new on a data source holding d
AppNew(d, list_ok) ==
    LET protos == query_protos(d, list_ok)
        len1   == usize_sub(Len(protos.val), 1)
        length == IF len1 = Overflowed THEN Overflowed ELSE usize_mul(len1, ITEM_HEIGHT)
        a == [ items |-> protos.val, cached |-> NoneCached, selected_index |-> 0,
               filtered_indexes |-> << >>, state_selected |-> 0,
               scroll_position |-> 0,
               scroll_content_length |-> IF length = Overflowed THEN 0 ELSE length,
               current_screen |-> Main("MainInput::None"),
               input_arena |-> InputArenaNew, exit |-> FALSE,
               query_data_calls |-> 0 ]
    IN  IF ~protos.ok THEN Err("query_protos", a)
        ELSE IF length = Overflowed THEN Panic(a)
        ELSE Ok(a)

\* variant of refresh: the list is emptied before the query, a failed query
\* leaves it empty
refresh_clears(a, d, list_ok) ==
    LET protos == query_protos(d, list_ok)
    IN  IF protos.ok THEN Ok([a EXCEPT !.items = protos.val])
        ELSE Err("query_protos", [a EXCEPT !.items = << >>])

\* AppState::refresh
refresh(a, d, list_ok) ==
    LET protos == query_protos(d, list_ok)
    IN  IF protos.ok THEN Ok([a EXCEPT !.items = protos.val])
        ELSE Err("query_protos", a)

\* variant of matches_filter: the test is negated
matches_filter_negated(v, f) == ~StrContains(v, f)

\* variant of matches_filter: str::starts_with instead of str::contains
matches_filter_prefix(v, f) == Len(f) <= Len(v) /\ SubSeq(v, 1, Len(f)) = f

\* AppState::matches_filter
matches_filter(v, f) == StrContains(v, f)

\* the indices (0-based) of the elements of s that satisfy keep, in order
RECURSIVE FilterIndexes(_, _, _)
FilterIndexes(s, f, n) ==
    IF n = 0 THEN << >>
    ELSE IF matches_filter(s[n].name, f)
         THEN Append(FilterIndexes(s, f, n - 1), n - 1)
         ELSE FilterIndexes(s, f, n - 1)

\* variant of filter: the indices of a non-empty filter are counted from 1
filter_from_one(a, filter_value) ==
    IF Len(filter_value) = 0
    THEN Ok([a EXCEPT !.filtered_indexes = [i \in 1..Len(a.items) |-> i - 1]])
    ELSE Ok([a EXCEPT !.filtered_indexes =
                [i \in 1..Len(FilterIndexes(a.items, filter_value, Len(a.items)))
                    |-> FilterIndexes(a.items, filter_value, Len(a.items))[i] + 1]])

\* AppState::filter
filter(a, filter_value) ==
    IF Len(filter_value) = 0
    THEN Ok([a EXCEPT !.filtered_indexes = [i \in 1..Len(a.items) |-> i - 1]])
    ELSE Ok([a EXCEPT !.filtered_indexes =
                          FilterIndexes(a.items, filter_value, Len(a.items))])

\* AppState::get_filtered_data: the rows the table widget is given
get_filtered_data(a) ==
    LET valid == SelectSeq(a.filtered_indexes, LAMBDA i : i < Len(a.items))
    IN  [j \in 1..Len(valid) |-> a.items[valid[j] + 1]]

\* variant of get_data: an empty view leaves the cached entry
get_data_keeps(a, d, fetch_ok) ==
    IF Len(a.filtered_indexes) = 0
    THEN Ok(a)
    ELSE
      LET n == Len(a.filtered_indexes)
          real_index == IF a.selected_index < n
                        THEN a.filtered_indexes[a.selected_index + 1]
                        ELSE a.filtered_indexes[n]
      IN  IF real_index >= Len(a.items) THEN Err("cannot_find_item", a)
          ELSE
            LET item == a.items[real_index + 1]
            IN  IF a.cached # NoneCached /\ item.rowid = a.cached[1] THEN Ok(a)
                ELSE
                  LET data == query_data(d, item.rowid, fetch_ok)
                      b    == [a EXCEPT !.query_data_calls = @ + 1]
                  IN  IF data.ok
                      THEN Ok([b EXCEPT !.cached = << item.rowid, data.val >>])
                      ELSE Err("query_data", b)

\* variant of get_data: the cached entry is not compared, the data is queried
\* at every call
get_data_uncached(a, d, fetch_ok) ==
    IF Len(a.filtered_indexes) = 0
    THEN Ok([a EXCEPT !.cached = NoneCached])
    ELSE
      LET n == Len(a.filtered_indexes)
          real_index == IF a.selected_index < n
                        THEN a.filtered_indexes[a.selected_index + 1]
                        ELSE a.filtered_indexes[n]
      IN  IF real_index >= Len(a.items) THEN Err("cannot_find_item", a)
          ELSE
            LET item == a.items[real_index + 1]
                data == query_data(d, item.rowid, fetch_ok)
                b    == [a EXCEPT !.query_data_calls = @ + 1]
            IN  IF data.ok
                THEN Ok([b EXCEPT !.cached = << item.rowid, data.val >>])
                ELSE Err("query_data", b)

\* variant of get_data: a selection past the end falls back to the first
\* filtered index instead of the last
get_data_first(a, d, fetch_ok) ==
    IF Len(a.filtered_indexes) = 0
    THEN Ok([a EXCEPT !.cached = NoneCached])
    ELSE
      LET n == Len(a.filtered_indexes)
          real_index == IF a.selected_index < n
                        THEN a.filtered_indexes[a.selected_index + 1]
                        ELSE a.filtered_indexes[1]
      IN  IF real_index >= Len(a.items) THEN Err("cannot_find_item", a)
          ELSE
            LET item == a.items[real_index + 1]
            IN  IF a.cached # NoneCached /\ item.rowid = a.cached[1] THEN Ok(a)
                ELSE
                  LET data == query_data(d, item.rowid, fetch_ok)
                      b    == [a EXCEPT !.query_data_calls = @ + 1]
                  IN  IF data.ok
                      THEN Ok([b EXCEPT !.cached = << item.rowid, data.val >>])
                      ELSE Err("query_data", b)

\* AppState::get_data
get_data(a, d, fetch_ok) ==
    IF Len(a.filtered_indexes) = 0
    THEN Ok([a EXCEPT !.cached = NoneCached])
    ELSE
      LET n == Len(a.filtered_indexes)
          real_index == IF a.selected_index < n
                        THEN a.filtered_indexes[a.selected_index + 1]
                        ELSE a.filtered_indexes[n]
      IN  IF real_index >= Len(a.items) THEN Err("cannot_find_item", a)
          ELSE
            LET item == a.items[real_index + 1]
            IN  IF a.cached # NoneCached /\ item.rowid = a.cached[1] THEN Ok(a)
                ELSE
                  LET data == query_data(d, item.rowid, fetch_ok)
                      b    == [a EXCEPT !.query_data_calls = @ + 1]
                  IN  IF data.ok
                      THEN Ok([b EXCEPT !.cached = << item.rowid, data.val >>])
                      ELSE Err("query_data", b)

\* AppState::update_state
update_state(a, new_state) ==
    LET pos == usize_mul(new_state, ITEM_HEIGHT)
        b   == [a EXCEPT !.selected_index = new_state, !.state_selected = new_state]
    IN  IF pos = Overflowed THEN Panic(b)
        ELSE Ok([b EXCEPT !.scroll_position = pos])

\* AppState::next_row
next_row(a) ==
    IF a.state_selected = NoneSelected THEN update_state(a, 0)
    ELSE
      LET i    == a.state_selected
          last == usize_sub(Len(a.filtered_indexes), 1)
      IN  IF last = Overflowed THEN Panic(a)
          ELSE IF i >= last THEN update_state(a, 0)
          ELSE LET n == usize_add(i, 1)
               IN  IF n = Overflowed THEN Panic(a) ELSE update_state(a, n)

\* AppState::previous_row
previous_row(a) ==
    IF a.state_selected = NoneSelected THEN update_state(a, 0)
    ELSE
      LET i == a.state_selected
      IN  IF i = 0
          THEN LET last == usize_sub(Len(a.filtered_indexes), 1)
               IN  IF last = Overflowed THEN Panic(a) ELSE update_state(a, last)
          ELSE update_state(a, usize_sub(i, 1))

---------------------------------------------------------------------------
(* app.rs: App, the handlers of key events *)

\* App::toggle_editing
toggle_editing(a) ==
    IF a.current_screen.tag = "Editing"
    THEN IF a.current_screen.focus = "EditingInput::Key"
         THEN [a EXCEPT !.current_screen = Editing("EditingInput::Value")]
         ELSE [a EXCEPT !.current_screen = Editing("EditingInput::Key")]
    ELSE [a EXCEPT !.current_screen = Editing("EditingInput::Value")]

\* the result of an InputArena operation as the result of the handler calling it
ArenaResult(a, r) ==
    IF r.ok THEN Ok([a EXCEPT !.input_arena = r.val])
    ELSE Err("input_not_found", a)

\* variant of handle_key_event_main_screen: 'e' opens the editor on the Value
\* field
handle_key_event_main_screen_value(a, key_event, focused, d, list_ok) ==
    IF focused = "MainInput::None"
    THEN CASE key_event.code = "Char" /\ key_event.ch = "e" ->
                Ok([a EXCEPT !.current_screen = Editing("EditingInput::Value")])
           [] key_event.code = "Char" /\ key_event.ch = "q" ->
                Ok([a EXCEPT !.current_screen = Exiting])
           [] key_event.code = "Char" /\ key_event.ch = "f" ->
                Ok([a EXCEPT !.current_screen = Main("MainInput::Filter")])
           [] key_event.code = "Down" -> next_row(a)
           [] key_event.code = "Up" -> previous_row(a)
           [] key_event.code = "Char" /\ key_event.ch = "r" -> refresh(a, d, list_ok)
           [] OTHER -> Ok(a)
    ELSE LET id == MainInputTryInto(focused)
         IN  CASE key_event.code = "Backspace" ->
                    IF id.ok THEN ArenaResult(a, value_pop(a.input_arena, id.id))
                    ELSE Err("input_conversion", a)
               [] key_event.code \in { "Enter", "Esc" } ->
                    Ok([a EXCEPT !.current_screen = Main("MainInput::None")])
               [] key_event.code = "Char" ->
                    IF id.ok
                    THEN ArenaResult(a, value_push(a.input_arena, id.id, key_event.ch))
                    ELSE Err("input_conversion", a)
               [] OTHER -> Ok(a)

\* App::handle_key_event_main_screen
handle_key_event_main_screen(a, key_event, focused, d, list_ok) ==
    IF focused = "MainInput::None"
    THEN CASE key_event.code = "Char" /\ key_event.ch = "e" ->
                Ok([a EXCEPT !.current_screen = Editing("EditingInput::Key")])
           [] key_event.code = "Char" /\ key_event.ch = "q" ->
                Ok([a EXCEPT !.current_screen = Exiting])
           [] key_event.code = "Char" /\ key_event.ch = "f" ->
                Ok([a EXCEPT !.current_screen = Main("MainInput::Filter")])
           [] key_event.code = "Down" -> next_row(a)
           [] key_event.code = "Up" -> previous_row(a)
           [] key_event.code = "Char" /\ key_event.ch = "r" -> refresh(a, d, list_ok)
           [] OTHER -> Ok(a)
    ELSE LET id == MainInputTryInto(focused)
         IN  CASE key_event.code = "Backspace" ->
                    IF id.ok THEN ArenaResult(a, value_pop(a.input_arena, id.id))
                    ELSE Err("input_conversion", a)
               [] key_event.code \in { "Enter", "Esc" } ->
                    Ok([a EXCEPT !.current_screen = Main("MainInput::None")])
               [] key_event.code = "Char" ->
                    IF id.ok
                    THEN ArenaResult(a, value_push(a.input_arena, id.id, key_event.ch))
                    ELSE Err("input_conversion", a)
               [] OTHER -> Ok(a)

\* variant of handle_key_event_exit_screen: 'q' confirms the exit as 'y' does
handle_key_event_exit_screen_q_exits(a, key_event) ==
    CASE key_event.code = "Char" /\ key_event.ch \in { "y", "q" } ->
            Ok([a EXCEPT !.exit = TRUE])
      [] key_event.code = "Char" /\ key_event.ch = "n" ->
            Ok([a EXCEPT !.current_screen = Main("MainInput::Filter")])
      [] OTHER -> Ok(a)

\* variant of handle_key_event_exit_screen: 'n' and 'q' return to the list
\* without the filter focus
handle_key_event_exit_screen_to_none(a, key_event) ==
    CASE key_event.code = "Char" /\ key_event.ch = "y" ->
            Ok([a EXCEPT !.exit = TRUE])
      [] key_event.code = "Char" /\ key_event.ch \in { "n", "q" } ->
            Ok([a EXCEPT !.current_screen = Main("MainInput::None")])
      [] OTHER -> Ok(a)

\* App::handle_key_event_exit_screen
handle_key_event_exit_screen(a, key_event) ==
    CASE key_event.code = "Char" /\ key_event.ch = "y" ->
            Ok([a EXCEPT !.exit = TRUE])
      [] key_event.code = "Char" /\ key_event.ch \in { "n", "q" } ->
            Ok([a EXCEPT !.current_screen = Main("MainInput::Filter")])
      [] OTHER -> Ok(a)

\* variant of handle_key_event_edit_screen: the arm of Esc is missing
handle_key_event_edit_screen_no_esc(a, key_event, focused) ==
    CASE key_event.code = "Enter" -> Ok(toggle_editing(a))
      [] key_event.code = "Backspace" ->
            ArenaResult(a, value_pop(a.input_arena, EditingInputInto(focused)))
      [] key_event.code = "Tab" -> Ok(toggle_editing(a))
      [] key_event.code = "Char" ->
            ArenaResult(a, value_push(a.input_arena, EditingInputInto(focused),
                                      key_event.ch))
      [] OTHER -> Ok(a)

\* App::handle_key_event_edit_screen
handle_key_event_edit_screen(a, key_event, focused) ==
    CASE key_event.code = "Enter" -> Ok(toggle_editing(a))
      [] key_event.code = "Backspace" ->
            ArenaResult(a, value_pop(a.input_arena, EditingInputInto(focused)))
      [] key_event.code = "Esc" ->
            Ok([a EXCEPT !.current_screen = Main("MainInput::None")])
      [] key_event.code = "Tab" -> Ok(toggle_editing(a))
      [] key_event.code = "Char" ->
            ArenaResult(a, value_push(a.input_arena, EditingInputInto(focused),
                                      key_event.ch))
      [] OTHER -> Ok(a)

\* variant of dispatch: the kind of the key event is not tested, a release is
\* handled as a press
dispatch_any_kind(a, ev, d, list_ok) ==
    IF ev.kind = "Key"
    THEN CASE a.current_screen.tag = "Main" ->
                handle_key_event_main_screen(a, ev, a.current_screen.focus, d, list_ok)
           [] a.current_screen.tag = "Exiting" -> handle_key_event_exit_screen(a, ev)
           [] a.current_screen.tag = "Editing" ->
                handle_key_event_edit_screen(a, ev, a.current_screen.focus)
    ELSE Ok(a)

\* the match on the event read, first statement of App::handle_events
dispatch(a, ev, d, list_ok) ==
    IF ev.kind = "Key" /\ ev.press
    THEN CASE a.current_screen.tag = "Main" ->
                handle_key_event_main_screen(a, ev, a.current_screen.focus, d, list_ok)
           [] a.current_screen.tag = "Exiting" -> handle_key_event_exit_screen(a, ev)
           [] a.current_screen.tag = "Editing" ->
                handle_key_event_edit_screen(a, ev, a.current_screen.focus)
    ELSE Ok(a)

\* the filter recompute and the payload lookup that end App::handle_events
settle(a, d, fetch_ok) ==
    LET id == MainInputTryInto("MainInput::Filter")
    IN  IF ~id.ok THEN Err("input_conversion", a)
        ELSE LET text == get_content(a.input_arena, id.id)
             IN  IF ~text.ok THEN Err("input_not_found", a)
                 ELSE LET f == filter(a, text.val)
                      IN  IF f.res # "ok" THEN f ELSE get_data(f.st, d, fetch_ok)

\* variant of handle_events: an event that is not a key press returns at once,
\* without the filter recompute and the payload lookup
handle_events_keys_only(a, ev, d, io) ==
    IF ev.kind = "ReadError" THEN Err("event_read", a)
    ELSE IF ev.kind # "Key" \/ ~ev.press THEN Ok(a)
    ELSE LET r == dispatch(a, ev, d, io.list_ok)
         IN  IF r.res # "ok" THEN r ELSE settle(r.st, d, io.fetch_ok)

\* App::handle_events on the event ev, with the collaborator's calls succeeding
\* or not as io says
handle_events(a, ev, d, io) ==
    IF ev.kind = "ReadError" THEN Err("event_read", a)
    ELSE LET r == dispatch(a, ev, d, io.list_ok)
         IN  IF r.res # "ok" THEN r ELSE settle(r.st, d, io.fetch_ok)

---------------------------------------------------------------------------
(* Events read by event::read *)

Press(code, ch) == [kind |-> "Key", press |-> TRUE, code |-> code, ch |-> ch]

Release(code, ch) == [kind |-> "Key", press |-> FALSE, code |-> code, ch |-> ch]

\* the characters a key press can carry in Spec: those the handlers give a meaning
Chars == { "e", "q", "f", "r", "y", "n" }

\* the key codes without a character; F1 stands for every key no handler names
PlainCodes == { "Up", "Down", "Enter", "Esc", "Backspace", "Tab", "F1" }

KeyPresses == { Press("Char", c) : c \in Chars } \cup { Press(k, "") : k \in PlainCodes }

\* events that are not key presses, and the failure of event::read
OtherEvents ==
    { Release("Char", "y"), Release("Down", ""),
      [kind |-> "Resize", press |-> FALSE, code |-> "", ch |-> ""],
      [kind |-> "ReadError", press |-> FALSE, code |-> "", ch |-> ""] }

Events == KeyPresses \cup OtherEvents

\* the keys of the three-record scenarios
ScenarioChars == { "f", "t", "c", "u", "d", "p", "T" }

ScenarioEvents ==
    { Press("Char", c) : c \in ScenarioChars }
        \cup { Press(k, "") : k \in { "Up", "Down", "Enter", "Esc", "Backspace" } }

\* whether the queries of the data source succeed during one handle_events;
\* query_data still fails when the table holds no row of the rowid asked for
IoOutcomes == [list_ok : BOOLEAN, fetch_ok : { TRUE }]

IoOk == { [list_ok |-> TRUE, fetch_ok |-> TRUE] }

\* the event makes the handler reload the list
Reloads(ev) ==
    /\ ev.kind = "Key" /\ ev.press /\ ev.code = "Char" /\ ev.ch = "r"
    /\ current_screen = Main("MainInput::None")

\* total number of characters in the input fields
TextLen(arena) ==
    Len(arena["InputId::Filter"].content) + Len(arena["InputId::Key"].content)
        + Len(arena["InputId::Value"].content)

\* the character typed into the Key and Value fields
EditChars == { "e" }

\* the characters typed into the Filter field: of those of Spec, one that a
\* single name holds, one that two names hold and one that no name holds
FilterChars == { "y", "n", "f" } \cup ScenarioChars

\* the position is no further than MaxPosition from an end of the range of usize
Near(p) == p <= MaxPosition \/ UsizeMax - p <= MaxPosition

\* the event makes a handler push a character
PushesChar(ev) ==
    /\ ev.kind = "Key" /\ ev.press /\ ev.code = "Char"
    /\ current_screen \in { Main("MainInput::Filter"), Editing("EditingInput::Key"),
                            Editing("EditingInput::Value") }

---------------------------------------------------------------------------
(* main.rs: run_app *)

\* the variables take the application st
Becomes(st) ==
    /\ items' = st.items
    /\ cached' = st.cached
    /\ selected_index' = st.selected_index
    /\ filtered_indexes' = st.filtered_indexes
    /\ state_selected' = st.state_selected
    /\ scroll_position' = st.scroll_position
    /\ scroll_content_length' = st.scroll_content_length
    /\ current_screen' = st.current_screen
    /\ input_arena' = st.input_arena
    /\ exit' = st.exit
    /\ query_data_calls' = st.query_data_calls

\* where run_app stands after a call that ended with r
PcAfter(r) ==
    CASE r.res = "panic" -> "panicked"
      [] r.res # "ok" /\ r.res # "panic" -> "failed"
      [] r.res = "ok" /\ r.st.exit -> "done"
      [] OTHER -> "draw"

ErrorOf(r) == IF r.res \in { "ok", "panic" } THEN "none" ELSE r.res

\* the selection the table widget leaves in the TableState it is given: ratatui
\* brings a selection that is past the last row back to the last row (to 0
\* when there is no row)
ClampedSelection(sel, rows) ==
    IF sel # NoneSelected /\ sel >= rows
    THEN IF rows = 0 THEN 0 ELSE rows - 1
    ELSE sel

\* the selections the table widget can leave in the TableState it is given
\* mutably, on a table of `rows` rows: the one it was given (the widget returns
\* at once on an empty area), the one brought back to the last row, or, on a
\* table without a row, none (the widget library, which decides between the
\* last two, is not part of the repository)
RenderedSelections(sel, rows) ==
    { sel, ClampedSelection(sel, rows) }
        \cup (IF rows = 0 THEN { NoneSelected } ELSE { })

\* terminal.draw(view(...)): the state is shown.  The table widget is given
\* the TableState mutably and can rewrite its selection.
Render ==
    /\ pc = "draw"
    /\ pc' = "read"
    /\ state_selected' \in
          RenderedSelections(state_selected, Len(get_filtered_data(App)))
    /\ UNCHANGED << overflow_checks, db, items, cached, selected_index,
                    filtered_indexes, scroll_position, scroll_content_length,
                    current_screen, input_arena, exit, error, query_data_calls >>

\* app.handle_events()? and the test of app.exit, on an event of E
HandleEventsOver(E, IO, cap) ==
    /\ pc = "read"
    /\ \E ev \in E, io \in IO :
          /\ PushesChar(ev) => TextLen(input_arena) < cap
          /\ (PushesChar(ev) /\ current_screen.tag = "Editing") => ev.ch \in EditChars
          /\ (PushesChar(ev) /\ current_screen.tag = "Main") => ev.ch \in FilterChars
          /\ ~io.list_ok => Reloads(ev)
          /\ LET r == handle_events(App, ev, db, io)
             IN  /\ Near(r.st.selected_index)
                 /\ Becomes(r.st)
                 /\ pc' = PcAfter(r)
                 /\ error' = ErrorOf(r)
    /\ UNCHANGED << overflow_checks, db >>

HandleEvents == HandleEventsOver(Events, IoOutcomes, MaxText)

ScenarioHandleEvents == HandleEventsOver(ScenarioEvents, IoOk, MaxScenarioText)

\* another process writes the table the application reads.  The draw does not
\* read the table, so a write during the draw is a write before the next read.
DbWrite ==
    /\ pc = "read"
    /\ db' \in DbStates \ { db }
    /\ UNCHANGED << pc, overflow_checks, items, cached, selected_index,
                    filtered_indexes, state_selected, scroll_position,
                    scroll_content_length, current_screen, input_arena, exit,
                    error, query_data_calls >>

\* the state App::new leaves, on a data source holding d
Started(d, list_ok) ==
    LET r == AppNew(d, list_ok)
    IN  /\ db = d
        /\ items = r.st.items
        /\ cached = r.st.cached
        /\ selected_index = r.st.selected_index
        /\ filtered_indexes = r.st.filtered_indexes
        /\ state_selected = r.st.state_selected
        /\ scroll_position = r.st.scroll_position
        /\ scroll_content_length = r.st.scroll_content_length
        /\ current_screen = r.st.current_screen
        /\ input_arena = r.st.input_arena
        /\ exit = r.st.exit
        /\ query_data_calls = r.st.query_data_calls
        /\ pc = PcAfter(r)
        /\ error = ErrorOf(r)

Init ==
    /\ overflow_checks \in BOOLEAN
    /\ \E d \in InitialDbStates, list_ok \in BOOLEAN : Started(d, list_ok)

Next == Render \/ HandleEvents \/ DbWrite

Spec == Init /\ [][Next]_vars

\* the application started on the three-record table, which nothing rewrites
InitScenario ==
    /\ overflow_checks \in BOOLEAN
    /\ Started(Table3, TRUE)

NextScenario == Render \/ ScenarioHandleEvents

SpecScenario == InitScenario /\ [][NextScenario]_vars

---------------------------------------------------------------------------
(* Properties *)

FilterText == input_arena["InputId::Filter"].content

KeyText == input_arena["InputId::Key"].content

ValueText == input_arena["InputId::Value"].content

\* run_app is in its loop: the last call of handle_events, if any, returned Ok
Running == pc \in { "draw", "read" }

\* the rowid of the record the position p selects through the filtered view,
\* a position past the end standing for the last one
SelectedRowid(p) ==
    LET n == Len(filtered_indexes)
        q == IF p < n THEN p ELSE n - 1
    IN  items[filtered_indexes[q + 1] + 1].rowid

\* C1: at every draw, if the filtered view is not empty the selection position
\* is a position of it: 0 <= selected_index < Len(filtered_indexes).
C1_PositionInView ==
    (pc = "draw" /\ Len(filtered_indexes) > 0)
        => (0 <= selected_index /\ selected_index < Len(filtered_indexes))

\* C2: when handle_events has returned Ok, the cache is empty if the filtered
\* view is empty, and otherwise holds the payload of the record at position
\* min(selected_index, Len(filtered_indexes) - 1) of the view; the lookup of a
\* position past the end of the view neither panics nor fails to find its record.
C2_CacheFollowsSelection ==
    /\ (Running \/ pc = "done") =>
          IF Len(filtered_indexes) = 0 THEN cached = NoneCached
          ELSE cached # NoneCached /\ cached[1] = SelectedRowid(selected_index)
    /\ (Running /\ Len(filtered_indexes) > 0
            /\ selected_index >= Len(filtered_indexes)) =>
          settle(App, db, TRUE).res \in { "ok", "query_data" }

\* a draw at which the position is past the end of a view that is not empty,
\* and the cache holds the last record of the view
C2_Witness ==
    /\ pc = "draw"
    /\ Len(filtered_indexes) > 0
    /\ selected_index >= Len(filtered_indexes)
    /\ cached # NoneCached
    /\ cached[1] = items[filtered_indexes[Len(filtered_indexes)] + 1].rowid

\* C3: at every draw, the first included, the filtered view is the filter of
\* the record list by the filter text, and the cache holds the selected record
\* (nothing if the view is empty).
C3_DrawSeesSettledState ==
    pc = "draw" =>
        /\ filtered_indexes = filter(App, FilterText).st.filtered_indexes
        /\ IF Len(filtered_indexes) = 0 THEN cached = NoneCached
           ELSE cached # NoneCached /\ cached[1] = SelectedRowid(selected_index)

\* the key presses of both specifications
AnyKeyPress ==
    { Press("Char", c) : c \in Chars \cup ScenarioChars }
        \cup { Press(k, "") : k \in PlainCodes }

\* what handle_events returns in the current state on the event ev
After(ev, io) == handle_events(App, ev, db, io)

\* the step taken is handle_events on the event ev
StepIs(ev) ==
    \E io \in IoOutcomes :
        LET r == After(ev, io)
        IN  Becomes(r.st) /\ pc' = PcAfter(r) /\ error' = ErrorOf(r)

\* the application st differs from the current one neither in the record
\* list nor in the selection position
SameListAndSelection(st) ==
    st.items = items /\ st.selected_index = selected_index

\* C4: the program starts in Main(None) with exit false; exit changes only in
\* a step that starts in Exiting and is handle_events on the key 'y', and no
\* other event, in whatever screen, makes handle_events set it.
C4_ExitOnlyByYInExiting ==
    /\ current_screen = Main("MainInput::None") /\ exit = FALSE
    /\ [][ exit' # exit =>
             /\ exit = FALSE /\ exit' = TRUE
             /\ current_screen = Exiting
             /\ StepIs(Press("Char", "y")) ]_vars
    /\ [](pc = "read" =>
             \A ev \in AnyKeyPress \cup OtherEvents, io \in IoOutcomes :
                 (current_screen # Exiting \/ ev # Press("Char", "y"))
                     => After(ev, io).st.exit = FALSE)

\* the program has ended by the exit flag
C4_Witness == pc = "done" /\ exit = TRUE /\ current_screen = Exiting

\* C5: in Exiting, 'y' sets exit; 'n' and 'q' set the screen to Main(Filter)
\* and leave exit false; every other key leaves the screen Exiting and exit
\* false; no key changes the input fields, the selection or the record list.
C5_ExitingKeys ==
    (pc = "read" /\ current_screen = Exiting) =>
        \A ev \in AnyKeyPress, io \in IoOk :
            LET st == After(ev, io).st
            IN  /\ st.exit = (ev = Press("Char", "y"))
                /\ st.current_screen =
                      IF ev \in { Press("Char", "n"), Press("Char", "q") }
                      THEN Main("MainInput::Filter") ELSE Exiting
                /\ st.input_arena = input_arena
                /\ SameListAndSelection(st)

\* the exit question is shown, with a selection that was moved and a filter typed
C5_Witness ==
    /\ pc = "read" /\ current_screen = Exiting
    /\ selected_index > 0 /\ FilterText # << >>
    /\ After(Press("Char", "n"), [list_ok |-> TRUE, fetch_ok |-> TRUE]).st.current_screen
          = Main("MainInput::Filter")

\* C6: in Main(None), 'e' sets the screen to Editing(Key), 'q' to Exiting, 'f'
\* to Main(Filter); Up, Down, 'r' and every other key leave it Main(None); no
\* key changes the content of an input field.
C6_MainNoneKeys ==
    (pc = "read" /\ current_screen = Main("MainInput::None")) =>
        \A ev \in AnyKeyPress, io \in IoOutcomes :
            LET st == After(ev, io).st
            IN  /\ st.current_screen =
                      CASE ev = Press("Char", "e") -> Editing("EditingInput::Key")
                        [] ev = Press("Char", "q") -> Exiting
                        [] ev = Press("Char", "f") -> Main("MainInput::Filter")
                        [] OTHER -> Main("MainInput::None")
                /\ st.input_arena = input_arena

\* the editor was opened from the list, whose fields hold text
C6_Witness ==
    /\ pc = "draw" /\ current_screen = Editing("EditingInput::Key")
    /\ FilterText # << >>

\* C7: in Main(Filter), a character key appends that character to Filter and
\* leaves the screen; Backspace removes the last character of Filter; Enter
\* and Esc set the screen to Main(None) and leave Filter; whatever the key,
\* Key, Value, the selection position, the record list and exit are unchanged.
C7_MainFilterKeys ==
    (pc = "read" /\ current_screen = Main("MainInput::Filter")) =>
        \A ev \in AnyKeyPress, io \in IoOk :
            LET st == After(ev, io).st
                text == st.input_arena["InputId::Filter"].content
            IN  /\ ev.code = "Char" =>
                      /\ text = FilterText \o << ev.ch >>
                      /\ st.current_screen = Main("MainInput::Filter")
                /\ ev.code = "Backspace" =>
                      /\ IF FilterText = << >> THEN text = << >>
                         ELSE text \o << FilterText[Len(FilterText)] >> = FilterText
                      /\ st.current_screen = Main("MainInput::Filter")
                /\ ev.code \in { "Enter", "Esc" } =>
                      /\ text = FilterText
                      /\ st.current_screen = Main("MainInput::None")
                /\ st.input_arena["InputId::Key"] = input_arena["InputId::Key"]
                /\ st.input_arena["InputId::Value"] = input_arena["InputId::Value"]
                /\ SameListAndSelection(st)
                /\ st.exit = FALSE

\* the filter has the focus, holds a character and the selection was moved
C7_Witness ==
    /\ pc = "read" /\ current_screen = Main("MainInput::Filter")
    /\ FilterText # << >> /\ selected_index > 0

\* the field an editing focus names
FieldOf(focus) == IF focus = "EditingInput::Key" THEN "InputId::Key" ELSE "InputId::Value"

OtherFocus(focus) ==
    IF focus = "EditingInput::Key" THEN "EditingInput::Value" ELSE "EditingInput::Key"

\* C8: in Editing(focus), Enter and Tab set the focus to the other of Key and
\* Value, and two of them restore it; Esc sets the screen to Main(None); a
\* character key appends to, and Backspace removes the last character of, the
\* field the focus names; the two other fields, the selection position and the
\* record list are unchanged.
C8_EditingKeys ==
    (pc = "read" /\ current_screen.tag = "Editing") =>
        LET focus == current_screen.focus
            mine  == FieldOf(focus)
        IN  /\ focus \in { "EditingInput::Key", "EditingInput::Value" }
            /\ toggle_editing(toggle_editing(App)).current_screen = current_screen
            /\ \A ev \in AnyKeyPress, io \in IoOk :
                  LET st == After(ev, io).st
                      text == st.input_arena[mine].content
                      old  == input_arena[mine].content
                  IN  /\ ev.code \in { "Enter", "Tab" } =>
                            st.current_screen = Editing(OtherFocus(focus))
                      /\ ev.code = "Esc" =>
                            st.current_screen = Main("MainInput::None")
                      /\ ev.code = "Char" =>
                            text = old \o << ev.ch >> /\ st.current_screen = current_screen
                      /\ ev.code = "Backspace" =>
                            /\ IF old = << >> THEN text = << >>
                               ELSE text \o << old[Len(old)] >> = old
                            /\ st.current_screen = current_screen
                      /\ ev.code \notin { "Char", "Backspace" } => text = old
                      /\ \A k \in InputIds \ { mine } :
                            st.input_arena[k] = input_arena[k]
                      /\ SameListAndSelection(st)

\* the editor has the focus on Value, which holds a character
C8_Witness ==
    /\ pc = "read" /\ current_screen = Editing("EditingInput::Value")
    /\ ValueText # << >>

\* v is a strictly increasing sequence of indices of a list of n records
IncreasingIndexes(v, n) ==
    /\ \A j \in 1..Len(v) : 0 <= v[j] /\ v[j] < n
    /\ \A j \in 1..(Len(v) - 1) : v[j] < v[j + 1]

\* the filter texts tried in a state: none, the one typed, and the one typed
\* with one more character
TextsTried ==
    { << >>, FilterText }
        \cup { FilterText \o << c >> : c \in Chars }

\* C9: the view filter computes from the record list, for the empty text, the
\* text typed or a longer one, is a strictly increasing sequence of indices of
\* the list, and for the empty text it is 0 .. Len(items) - 1; the view kept is
\* such a sequence too, so that the payload lookup finds its record: the error
\* 'Cannot find item from index' is never returned, reloads included.
C9_ViewIndexesValid ==
    /\ IncreasingIndexes(filtered_indexes, Len(items))
    /\ \A t \in TextsTried :
          LET v == filter(App, t).st.filtered_indexes
          IN  /\ IncreasingIndexes(v, Len(items))
              /\ t = << >> => v = [j \in 1..Len(items) |-> j - 1]
    /\ error # "cannot_find_item"
    /\ Running => settle(App, db, TRUE).res # "cannot_find_item"

\* the list was reloaded from a table that had lost a row, a filter is typed
\* and the lookup found the record of the view
C9_Witness ==
    /\ pc = "draw"
    /\ scroll_content_length = 2 * ITEM_HEIGHT
    /\ Len(items) = 2
    /\ FilterText # << >>
    /\ Len(filtered_indexes) = 1
    /\ cached # NoneCached

\* t occurs in v: v is some characters, then t, then some characters
IsSubstring(t, v) ==
    \E k \in 1..(Len(v) + 1) :
        /\ k + Len(t) - 1 <= Len(v)
        /\ \A j \in 1..Len(t) : v[k + j - 1] = t[j]

InView(i) == \E j \in 1..Len(filtered_indexes) : filtered_indexes[j] = i

\* C10: when the filter text is not empty, the view holds the index i exactly
\* when the name of record i contains the text as a contiguous run of the same
\* characters (upper and lower case differ); on the three records tcp_syn,
\* tcp_ack, udp_ping with the text "tcp" the view is 0, 1 and position 1
\* selects the record of rowid 2.
C10_ViewIsSubstringMatches ==
    FilterText # << >> =>
        /\ \A i \in 0..(Len(items) - 1) :
              InView(i) <=> IsSubstring(FilterText, items[i + 1].name)
        /\ FilterText = << "t", "c", "p" >> =>
              /\ filtered_indexes = << 0, 1 >>
              /\ (Running /\ selected_index = 1) => cached = << 2, "d2" >>

\* "tcp" is typed and position 1 is selected
C10_Witness ==
    /\ pc = "draw"
    /\ FilterText = << "t", "c", "p" >>
    /\ filtered_indexes = << 0, 1 >>
    /\ selected_index = 1
    /\ cached = << 2, "d2" >>

\* u is v with some of its elements removed
RECURSIVE IsSubsequence(_, _)
IsSubsequence(u, v) ==
    IF u = << >> THEN TRUE
    ELSE IF v = << >> THEN FALSE
    ELSE IF Head(u) = Head(v) THEN IsSubsequence(Tail(u), Tail(v))
    ELSE IsSubsequence(u, Tail(v))

\* the contiguous runs of characters of t, the empty one included
SubstringsOf(t) ==
    { << >> } \cup { SubSeq(t, i, j) : i \in 1..Len(t), j \in 1..Len(t) }

\* the record lists the data source can hand over
RecordLists == { query_protos(d, TRUE).val : d \in DbStates }

\* the view filter computes from the record list R and the text t
FilteredView(R, t) ==
    filter([items |-> R, filtered_indexes |-> << >>], t).st.filtered_indexes

ElementsOf(v) == { v[j] : j \in 1..Len(v) }

\* C11: whenever the filter has the focus, for every record list R and every
\* substring t1 of the text t2 typed, the indices of the view of t2 are among
\* those of the view of t1, in the same order; a character key leaves the
\* record list and yields a view that is a subsequence of the view before, and
\* Backspace yields a view the view before is a subsequence of.
C11_NarrowingNeverAdds ==
    (pc = "read" /\ current_screen = Main("MainInput::Filter")) =>
        /\ \A R \in RecordLists :
              LET v2 == FilteredView(R, FilterText)
              IN  \A t1 \in SubstringsOf(FilterText) :
                      LET v1 == FilteredView(R, t1)
                      IN  /\ ElementsOf(v2) \subseteq ElementsOf(v1)
                          /\ IsSubsequence(v2, v1)
        /\ \A c \in ScenarioChars \cup Chars, io \in IoOk :
              LET st == After(Press("Char", c), io).st
              IN  /\ st.items = items
                  /\ st.input_arena["InputId::Filter"].content = FilterText \o << c >>
                  /\ IsSubsequence(st.filtered_indexes, filtered_indexes)
        /\ \A io \in IoOk :
              LET st == After(Press("Backspace", ""), io).st
              IN  /\ st.items = items
                  /\ st.input_arena["InputId::Filter"].content = StrPop(FilterText)
                  /\ IsSubsequence(filtered_indexes, st.filtered_indexes)

\* "ud" is typed in the filter, which narrowed the three records to udp_ping
C11_Witness ==
    /\ pc = "read" /\ current_screen = Main("MainInput::Filter")
    /\ FilterText = << "u", "d" >>
    /\ filtered_indexes = << 2 >>
    /\ Len(items) = 3

\* C12: in Main(None), on a view of n > 0 indices and a position p < n,
\* next_row sets the position to p + 1 if p < n - 1 and to 0 if p = n - 1, and
\* previous_row sets it to p - 1 if p > 0 and to n - 1 if p = 0; neither
\* changes the screen, the input fields, the record list or the view.
C12_NextPreviousStep ==
    (pc = "read" /\ current_screen = Main("MainInput::None")
        /\ Len(filtered_indexes) > 0 /\ selected_index < Len(filtered_indexes)) =>
        LET n  == Len(filtered_indexes)
            p  == selected_index
            dn == next_row(App)
            up == previous_row(App)
        IN  /\ dn.res = "ok" /\ up.res = "ok"
            /\ dn.st.selected_index = IF p < n - 1 THEN p + 1 ELSE 0
            /\ up.st.selected_index = IF p > 0 THEN p - 1 ELSE n - 1
            /\ \A st \in { dn.st, up.st } :
                  /\ st.current_screen = current_screen
                  /\ st.input_arena = input_arena
                  /\ st.items = items
                  /\ st.filtered_indexes = filtered_indexes

\* n calls of next_row from the application a
RECURSIVE NextRows(_, _)
NextRows(a, n) == IF n = 0 THEN Ok(a) ELSE
    LET r == NextRows(a, n - 1)
    IN  IF r.res # "ok" THEN r ELSE next_row(r.st)

\* C13: in Main(None), on a view of n > 0 indices and a position p < n,
\* next_row followed by previous_row leaves the position p, and so do n calls
\* of next_row.
C13_NextPreviousRoundTrip ==
    (pc = "read" /\ current_screen = Main("MainInput::None")
        /\ Len(filtered_indexes) > 0 /\ selected_index < Len(filtered_indexes)) =>
        LET dn    == next_row(App)
            back  == previous_row(dn.st)
            round == NextRows(App, Len(filtered_indexes))
        IN  /\ dn.res = "ok" /\ back.res = "ok" /\ round.res = "ok"
            /\ back.st.selected_index = selected_index
            /\ round.st.selected_index = selected_index

\* the rowid of the record the position of the application st selects through
\* its view, a position past the end standing for the last one
RowidSelectedIn(st) ==
    LET n == Len(st.filtered_indexes)
        q == IF st.selected_index < n THEN st.selected_index ELSE n - 1
    IN  st.items[st.filtered_indexes[q + 1] + 1].rowid

\* handle_events has returned at least once, or there is no record: the view
\* kept is the filter of the record list by the filter text
FirstTickDone == filtered_indexes = filter(App, FilterText).st.filtered_indexes

\* the application st has the position, the filter text and the record list
\* of the current state
SameSelectionFilterList(st) ==
    /\ st.selected_index = selected_index
    /\ st.input_arena["InputId::Filter"].content = FilterText
    /\ st.items = items

\* every event of Spec, the failure of event::read excepted
TickEvents == { ev \in Events : ev.kind # "ReadError" }

\* the outcomes of the queries a tick on the event ev can meet: query_protos
\* is called, and can fail, only when the event reloads the list
IoFor(ev) == IF Reloads(ev) THEN IoOutcomes ELSE IoOk

\* C14: handle_events calls query_data at most once, and only when the view it
\* computed is not empty and the cache is empty or holds another rowid than
\* the selected record's; before the first tick nothing is cached and the view
\* is empty, the first tick that ends with records listed queries once, and a tick
\* after it that leaves the position, the filter text and the record list
\* queries nothing and leaves the cache: two such ticks query once in total.
C14_OneFetchThenHit ==
    /\ query_data_calls \in { 0, 1 }
    /\ pc = "read" =>
          /\ ~FirstTickDone =>
                /\ cached = NoneCached /\ filtered_indexes = << >> /\ Len(items) > 0
                /\ \A ev \in TickEvents, io \in IoOk :
                      LET r == After(ev, io)
                      IN  (r.res \in { "ok", "query_data" } /\ Len(r.st.items) > 0)
                              => r.st.query_data_calls = 1
          /\ \A ev \in TickEvents : \A io \in IoFor(ev) :
                LET st == After(ev, io).st
                IN  /\ st.query_data_calls \in { 0, 1 }
                    /\ st.query_data_calls = 1 =>
                          /\ Len(st.filtered_indexes) > 0
                          /\ cached = NoneCached \/ cached[1] # RowidSelectedIn(st)
                    /\ (FirstTickDone /\ SameSelectionFilterList(st)) =>
                          /\ st.query_data_calls = 0
                          /\ st.cached = cached

\* the last tick found the selected record in the cache and queried nothing
C14_Witness ==
    /\ pc = "draw"
    /\ cached # NoneCached
    /\ Len(filtered_indexes) > 0
    /\ cached[1] = SelectedRowid(selected_index)
    /\ query_data_calls = 0

\* the record list the data source holds now
Stored == query_protos(db, TRUE).val

\* the view of the application st is the filter of its record list by its
\* filter text
ViewRecomputed(st) ==
    st.filtered_indexes
        = filter(st, st.input_arena["InputId::Filter"].content).st.filtered_indexes

\* C15 as stated: every tick that returns Ok, whatever the event and the
\* screen, has reloaded the record list from the data source and recomputed
\* the view from it.
C15_EveryTickReloads ==
    pc = "read" =>
        \A ev \in TickEvents, io \in IoOk :
            LET r == After(ev, io)
            IN  r.res = "ok" => (r.st.items = Stored /\ ViewRecomputed(r.st))

\* C15 as amended: every tick whose handler returns without error, whatever
\* the event and the screen, recomputes the view from the record list it
\* leaves (a failing payload lookup comes after the recompute); the record list
\* is reloaded from the data source by 'r' in Main(None) and by no other tick.
C15_ViewEveryTickListOnReload ==
    pc = "read" =>
        \A ev \in TickEvents : \A io \in IoFor(ev) :
            LET r == After(ev, io)
            IN  /\ r.res \in { "ok", "query_data" } => ViewRecomputed(r.st)
                /\ r.st.items = IF Reloads(ev) /\ io.list_ok THEN Stored ELSE items

\* a tick has recomputed the view from a record list that is no longer the one
\* the data source holds
C15_Witness ==
    /\ pc = "draw"
    /\ items # Stored
    /\ FilterText # << >>
    /\ Len(filtered_indexes) > 0
    /\ ViewRecomputed(App)

\* C16: a tick that ends with an empty record list, whatever the filter text,
\* the event and the list before, leaves an empty view and an empty cache and
\* queries no data; filter on an empty list yields the empty view for every text.
C16_EmptyListTick ==
    /\ \A t \in TextsTried : FilteredView(<< >>, t) = << >>
    /\ pc = "read" =>
          \A ev \in Events : \A io \in IoFor(ev) :
              LET st == After(ev, io).st
              IN  st.items = << >> =>
                      /\ st.filtered_indexes = << >>
                      /\ st.cached = NoneCached
                      /\ st.query_data_calls = 0

\* the list was reloaded from a table that had lost its three rows, with a
\* filter text typed
C16_Witness ==
    /\ pc = "draw"
    /\ items = << >>
    /\ scroll_content_length = 2 * ITEM_HEIGHT
    /\ FilterText # << >>
    /\ filtered_indexes = << >>
    /\ cached = NoneCached

\* the keys the handler of the screen names in its match
ListedKeys(screen) ==
    CASE screen = Main("MainInput::None") ->
            { Press("Char", c) : c \in { "e", "q", "f", "r" } }
                \cup { Press("Down", ""), Press("Up", "") }
      [] screen = Main("MainInput::Filter") ->
            { ev \in AnyKeyPress : ev.code \in { "Backspace", "Enter", "Esc", "Char" } }
      [] screen.tag = "Editing" ->
            { ev \in AnyKeyPress : ev.code \in { "Enter", "Backspace", "Esc", "Tab", "Char" } }
      [] screen = Exiting ->
            { Press("Char", c) : c \in { "y", "n", "q" } }

\* C17: an event that is not a key press, and a key press the handler of the
\* current screen does not name, leave the screen, the three input fields, the
\* selection position, the record list and the exit flag.
C17_OtherEventsNoOp ==
    pc = "read" =>
        \A ev \in OtherEvents \cup (KeyPresses \ ListedKeys(current_screen)) :
          \A io \in IoFor(ev) :
            LET st == After(ev, io).st
            IN  /\ st.current_screen = current_screen
                /\ st.input_arena = input_arena
                /\ st.selected_index = selected_index
                /\ st.items = items
                /\ st.exit = exit

\* the exit question is shown with the selection moved: the release of 'y'
\* does not confirm it where the press does, and a key it does not name leaves it
C17_Witness ==
    /\ pc = "read" /\ current_screen = Exiting /\ selected_index > 0
    /\ \A io \in IoOk :
          /\ After(Release("Char", "y"), io).st.exit = FALSE
          /\ After(Press("Char", "y"), io).st.exit = TRUE
          /\ After(Press("F1", ""), io).st.current_screen = Exiting

\* handle_events on the key press ev in the application st a tick has left,
\* the queries of the data source succeeding
Tick(st, ev) ==
    handle_events([st EXCEPT !.query_data_calls = 0], ev, db,
                  [list_ok |-> TRUE, fetch_ok |-> TRUE])

FilterTextIn(st) == st.input_arena["InputId::Filter"].content

\* C18: from Main(None) with the three records tcp_syn, tcp_ack, udp_ping
\* listed and an empty filter text, the keys 'f', 'u', 'd', 'p', Enter all
\* return Ok and end in Main(None) with the filter text "udp" and the view [2];
\* after 'f' the view is [0, 1, 2] on the empty text, after 'u', 'd' and 'p'
\* it is [2] on "u", "ud" and "udp", the filter keeping the focus.
C18_FilterUdpScenario ==
    (pc = "read" /\ current_screen = Main("MainInput::None")
        /\ FilterText = << >> /\ items = query_protos(Table3, TRUE).val) =>
        LET k1 == Tick(App, Press("Char", "f"))
            k2 == Tick(k1.st, Press("Char", "u"))
            k3 == Tick(k2.st, Press("Char", "d"))
            k4 == Tick(k3.st, Press("Char", "p"))
            k5 == Tick(k4.st, Press("Enter", ""))
        IN  /\ \A k \in { k1, k2, k3, k4, k5 } : k.res = "ok" /\ k.st.exit = FALSE
            /\ \A k \in { k1, k2, k3, k4 } :
                  k.st.current_screen = Main("MainInput::Filter")
            /\ FilterTextIn(k1.st) = << >> /\ k1.st.filtered_indexes = << 0, 1, 2 >>
            /\ FilterTextIn(k2.st) = << "u" >> /\ k2.st.filtered_indexes = << 2 >>
            /\ FilterTextIn(k3.st) = << "u", "d" >> /\ k3.st.filtered_indexes = << 2 >>
            /\ FilterTextIn(k4.st) = << "u", "d", "p" >> /\ k4.st.filtered_indexes = << 2 >>
            /\ k5.st.current_screen = Main("MainInput::None")
            /\ FilterTextIn(k5.st) = << "u", "d", "p" >>
            /\ k5.st.filtered_indexes = << 2 >>

\* "udp" was typed and Enter pressed: the list shows udp_ping alone
C18_Witness ==
    /\ pc = "draw" /\ current_screen = Main("MainInput::None")
    /\ FilterText = << "u", "d", "p" >>
    /\ filtered_indexes = << 2 >>
    /\ cached = << 3, "d3" >>

\* C19: when query_protos fails on 'r' or query_data fails in the payload
\* lookup, handle_events returns that error and run_app leaves its loop: no
\* draw and no further read follow; the failed reload leaves the record list
\* and the failed lookup leaves the cached entry.
C19_FailureEndsLoop ==
    /\ pc = "failed" =>
          /\ error # "none"
          /\ ~ENABLED Render
          /\ ~ENABLED HandleEvents
    /\ pc = "read" =>
          \A ev \in KeyPresses : \A io \in IoFor(ev) :
              LET r == After(ev, io)
              IN  /\ (Reloads(ev) /\ ~io.list_ok) => r.res = "query_protos"
                  /\ r.res = "query_protos" =>
                        /\ r.st.items = items
                        /\ PcAfter(r) = "failed" /\ ErrorOf(r) = "query_protos"
                  /\ (r.st.query_data_calls = 1
                        /\ ~query_data(db, RowidSelectedIn(r.st), io.fetch_ok).ok)
                        => r.res = "query_data"
                  /\ r.res = "query_data" =>
                        /\ r.st.cached = cached
                        /\ PcAfter(r) = "failed" /\ ErrorOf(r) = "query_data"

\* the loop has ended on a payload lookup that failed, the cache still holding
\* the record selected before
C19_Witness ==
    /\ pc = "failed" /\ error = "query_data"
    /\ cached # NoneCached
    /\ Len(filtered_indexes) > 0
    /\ cached[1] # SelectedRowid(selected_index)

\* C20: App::new leaves the contents of Filter, Key and Value empty; on the
\* input fields of every reachable state and for each of the three ids,
\* value_pop on an empty content returns Ok and changes nothing, value_push
\* appends the character and value_pop after it restores the content, and
\* neither changes the two other fields.
C20_InputArenaPushPop ==
    /\ \A d \in InitialDbStates, k \in InputIds :
          AppNew(d, TRUE).st.input_arena[k].content = << >>
    /\ \A k \in InputIds :
          LET content == input_arena[k].content
              pop0    == value_pop(input_arena, k)
          IN  /\ pop0.ok
              /\ content = << >> => pop0.val = input_arena
              /\ \A j \in InputIds \ { k } : pop0.val[j] = input_arena[j]
              /\ \A c \in Chars :
                    LET pushed == value_push(input_arena, k, c)
                        popped == value_pop(pushed.val, k)
                    IN  /\ pushed.ok /\ popped.ok
                        /\ pushed.val[k].content = content \o << c >>
                        /\ popped.val[k].content = content
                        /\ popped.val = input_arena
                        /\ \A j \in InputIds \ { k } : pushed.val[j] = input_arena[j]

\* the editor is open, a character typed in Key, the two other fields empty
C20_Witness ==
    /\ pc = "read" /\ current_screen.tag = "Editing"
    /\ KeyText # << >>
    /\ FilterText = << >> /\ ValueText = << >>

\* C21: in Main(None) with an empty view (the filter matches nothing, the
\* record list is empty, or no tick has computed the view yet), next_row and
\* previous_row return without an arithmetic overflow and leave the position 0.
C21_EmptyViewMoves ==
    (pc = "read" /\ current_screen = Main("MainInput::None")
        /\ filtered_indexes = << >>) =>
        LET dn == next_row(App)
            up == previous_row(App)
        IN  /\ dn.res = "ok" /\ up.res = "ok"
            /\ dn.st.selected_index = 0
            /\ up.st.selected_index = 0

\* C22: App::new on an empty table returns Ok with the screen Main(None), the
\* position 0 and nothing cached, and the content length of the scrollbar,
\* (len - 1) * ITEM_HEIGHT, has not wrapped below zero: it is no more than
\* len * ITEM_HEIGHT.
C22_NewOnEmptyList ==
    (db = Table0 /\ error = "none") =>
    LET r == AppNew(db, TRUE)
    IN  /\ r.res = "ok"
        /\ r.st.current_screen = Main("MainInput::None")
        /\ r.st.selected_index = 0
        /\ r.st.cached = NoneCached
        /\ r.st.items = << >>
        /\ r.st.scroll_content_length <= Len(r.st.items) * ITEM_HEIGHT

\* the errors of the routing of input: the conversion of a focus that names
\* no field, and the lookup of a field the arena does not hold
RoutingErrors == { "input_conversion", "input_not_found" }

\* C23: the loop never ends on a routing error and, whatever the event read and
\* the outcome of the queries, handle_events returns none: the conversion of a
\* focus of the main screen never meets a focus it fails on, and the arena
\* holds the field of every id looked up.
C23_NoRoutingError ==
    /\ error \notin RoutingErrors
    /\ \A k \in InputIds :
          /\ get_content(input_arena, k).ok
          /\ value_pop(input_arena, k).ok
    /\ pc = "read" =>
          /\ current_screen \in
                { Main("MainInput::None"), Main("MainInput::Filter"),
                  Editing("EditingInput::Key"), Editing("EditingInput::Value"),
                  Exiting }
          /\ \A ev \in Events : \A io \in IoFor(ev) :
                After(ev, io).res \notin RoutingErrors

\* the filter has the focus and holds a character: the keys typed went
\* through the conversion of the focus and the lookup of the field
C23_Witness ==
    /\ pc = "read" /\ current_screen = Main("MainInput::Filter")
    /\ FilterText # << >>
    /\ \A io \in IoOk :
          After(Press("Backspace", ""), io).st.input_arena["InputId::Filter"].content
              = << >>

\* the keys that quit from a screen: Esc leaves an input, 'q' asks, 'y' confirms
QuitKeys(screen) ==
    CASE screen = Exiting -> << Press("Char", "y") >>
      [] screen = Main("MainInput::None") -> << Press("Char", "q"), Press("Char", "y") >>
      [] OTHER -> << Press("Esc", ""), Press("Char", "q"), Press("Char", "y") >>

\* handle_events on the keys of the sequence in turn, as long as it returns Ok
RECURSIVE Ticks(_, _)
Ticks(st, keys) ==
    IF keys = << >> THEN Ok(st)
    ELSE LET r == Tick(st, Head(keys))
         IN  IF r.res # "ok" THEN r ELSE Ticks(r.st, Tail(keys))

\* the data source holds the data of every record listed: no lookup fails
StoreHasListed ==
    \A i \in 1..Len(items) : query_data(db, items[i].rowid, TRUE).ok

\* C24: in every state of the loop exit is false and, the queries of the data
\* source succeeding, at most three key presses among Esc, 'q', 'y' set it:
\* 'y' in Exiting, 'q' 'y' in Main(None), Esc 'q' 'y' elsewhere; a tick enters
\* Editing only from Main(None) and with the focus Key, and Exiting only from
\* Main(None).
C24_CanAlwaysQuit ==
    /\ Running =>
          /\ exit = FALSE
          /\ StoreHasListed =>
                LET r == Ticks(App, QuitKeys(current_screen))
                IN  /\ Len(QuitKeys(current_screen)) <= 3
                    /\ r.res = "ok"
                    /\ r.st.exit = TRUE
                    /\ PcAfter(r) = "done"
    /\ pc = "read" =>
          \A ev \in Events : \A io \in IoFor(ev) :
              LET st == After(ev, io).st
              IN  /\ (st.current_screen.tag = "Editing"
                        /\ current_screen.tag # "Editing") =>
                        /\ current_screen = Main("MainInput::None")
                        /\ st.current_screen = Editing("EditingInput::Key")
                  /\ (st.current_screen = Exiting /\ current_screen # Exiting) =>
                        current_screen = Main("MainInput::None")

\* the editor has the focus on Value with text typed, records are listed and
\* the data source holds them: Esc, 'q', 'y' end the program
C24_Witness ==
    /\ pc = "read" /\ current_screen = Editing("EditingInput::Value")
    /\ KeyText # << >>
    /\ Len(filtered_indexes) > 0
    /\ StoreHasListed
    /\ Ticks(App, QuitKeys(current_screen)).st.exit = TRUE

\* C25: in every state of the loop the three stores of the selection agree: the
\* TableState holds a selection, it equals selected_index, and the position of
\* the scrollbar is selected_index * ITEM_HEIGHT.
C25_SelectionStoresAgree ==
    Running =>
        /\ state_selected # NoneSelected
        /\ state_selected = selected_index
        /\ scroll_position = selected_index * ITEM_HEIGHT

===========================================================================
